---- MODULE Spec2Model ----
(***************************************************************************)
(* A state-machine model of the FlawlessAPI framework: the token bucket    *)
(* of the rate limiter, the LRU+TTL cache, the priority task queue, the    *)
(* circuit breaker and the middleware chain around handle_request.         *)
(*                                                                         *)
(* Each subsystem has its own specification (SpecBucket, SpecCache, ...)   *)
(* over the shared variables; a subsystem's actions leave the other        *)
(* subsystems' variables unchanged.                                        *)
(***************************************************************************)
EXTENDS Integers, Sequences, FiniteSets, TLC

(***************************************************************************)
(* Bounds of the model.                                                    *)
(***************************************************************************)
\* time.time() is read as an integer number of ticks in 1..MaxTime
MaxTime == 4
\* TokenBucket(capacity, fill_rate): the values the bucket is built with
BucketCapacity == 2
FillRate == 1
\* the largest n passed to TokenBucket.acquire(n)
MaxAcquire == 2
\* LRUCache(capacity, ttl): the values the cache is built with
CacheCapacity == 2
DefaultTtl == 2
\* the number of LRUCache.get calls a run makes (caps hits + misses)
MaxGets == 2
\* the number of TaskQueue.add_task calls a run makes
MaxTasks == 4
\* TaskQueue(max_workers): the number of consumers TaskQueue.start creates
max_workers == 2
\* the largest max_retries passed to add_task
MaxRetries == 1
\* the number of add_task calls a run on retries and cancellation makes
MaxSubmitted == 1
MaxFairTasks == 2
\* CircuitBreaker(failure_threshold, reset_timeout): the values it is built with
failure_threshold == 2
reset_timeout == 1
\* the number of add_middleware calls a run makes
MaxAddMiddleware == 1
\* the largest number of segments of a route pattern and of a request path
MaxSegments == 2
\* the number of add_route calls and of find_route calls a run makes
MaxRoutes == 2
MaxFinds == 2
\* the number of sweeps of a cache that are counted
MaxSweeps == 2
\* RouteCache: the ttl of the LRUCache it is built on, in ticks
RouteTtl == 2
\* the bodies sent have up to MaxChunks full chunks and one byte
MaxChunks == 2
\* the interpreter's recursion limit, counted in nested send_json_response
\* calls
RecursionLimit == 3
\* the number of requests the monitor and the tracer see
MaxServed == 1002

VARIABLES
    now,            \* the wall clock, time.time()
    tokens,         \* TokenBucket.tokens
    last_update,    \* TokenBucket.last_update
    granted,        \* history: granted[t] = tokens handed out by acquire at time t
    lastAcquire,    \* history: the last acquire call, [n, ok, tokens before it]
    cache,          \* LRUCache.cache: the OrderedDict, least recently used first
    hits,           \* LRUCache.hits
    misses,         \* LRUCache.misses
    max_memory,     \* LRUCache.max_memory in size units, 0 for None
    cacheOp,        \* history: the last cache call, [op, key, result, found, evicted]
    heap,           \* TaskQueue.queue: the list asyncio.PriorityQueue keeps as a heap
    tasks,          \* TaskQueue.tasks: the Task objects by id, in creation order
    pc,             \* where each consumer's coroutine is suspended
    current_task,   \* Consumer.current_task, 0 for None
    lastCancel,     \* history: the last cancel_task call, [id, returned, status before]
    state,              \* CircuitBreaker.state
    failures,           \* CircuitBreaker.failures
    last_failure_time,  \* CircuitBreaker.last_failure_time
    breakerHist,        \* history: the breaker's last call and the failures in a row
    middleware_stack,   \* FlawlessAPI.middleware_stack
    compiled_chain,     \* FlawlessAPI._compiled_chain: [compiled, chain]
    req,                \* the requests in flight: the scope and the position in the chain
    root,               \* FlawlessAPI.root: the trie, a TrieNode for each sequence of child keys
    routes,             \* FlawlessAPI._routes: the handler registered for each path
    route_cache,        \* FlawlessAPI.route_cache.cache: the OrderedDict of cached results
    finds,              \* history: the find_route calls made, each [path, result, cached]
    access_count,       \* RouteCache.access_count: the get calls made for each key
    startup_complete,   \* hasattr(self, '_startup_complete')
    background,         \* the background loops alive and Consumer.is_running
    life,               \* history: how often the startup hooks and startup() ran, shutdown
    sweeper,            \* LRUCache._cleanup_task of each cache: where _cleanup_loop is
    emit,               \* the send_json_response / send_file_response call under way
    wire,               \* history: the messages the send callable accepted for that call
    requests,           \* PerformanceMonitor.requests: the serials of the stored records
    current_requests,   \* PerformanceMonitor.current_requests
    spans,              \* DistributedTracer.spans: the serials of the recorded spans
    inflight            \* the request between 'before' and 'after': its 'after' calls to come

bucketVars == <<tokens, last_update, granted, lastAcquire>>

cacheVars == <<cache, hits, misses, max_memory, cacheOp>>

queueVars == <<heap, tasks, pc, current_task, lastCancel>>

breakerVars == <<state, failures, last_failure_time, breakerHist>>

appVars == <<middleware_stack, compiled_chain, req>>

routerVars == <<root, routes, route_cache, finds, access_count>>

lifeVars == <<startup_complete, background, life, sweeper>>

respVars == <<emit, wire>>

monVars == <<requests, current_requests, spans, inflight>>

vars == <<now, bucketVars, cacheVars, queueVars, breakerVars, appVars, routerVars,
          lifeVars, respVars, monVars>>

Times == 1..MaxTime

Min(a, b) == IF a <= b THEN a ELSE b

NoCall == [n |-> 0, ok |-> FALSE, before |-> 0, calls |-> 0]

(***************************************************************************)
(* The clock.  time.time() is positive and, as the claims assume, does not *)
(* go backwards.                                                           *)
(***************************************************************************)
Tick ==
    /\ now < MaxTime
    /\ now' = now + 1

(***************************************************************************)
(* TokenBucket (src/middleware/rate_limit.py)                              *)
(***************************************************************************)
\* mutant: the refill is not clamped at the capacity
RefillUnclamped(tk, elapsed) == tk + elapsed * FillRate

\* tokens after the refill: min(capacity, tokens + elapsed * fill_rate)
Refill(tk, elapsed) == Min(BucketCapacity, tk + elapsed * FillRate)

\* mutant: last_update is left where it was, so the same interval refills again
StaleLastUpdate(lu, t) == lu

\* self.last_update = now
NextLastUpdate(lu, t) == t

\* mutant: the tokens are subtracted before the test
EnoughAfterSubtract(tk, n) == TRUE

\* if self.tokens >= tokens
Enough(tk, n) == tk >= n

\* what acquire(n) returns
AcquireResult(n) == Enough(Refill(tokens, now - last_update), n)

\* TokenBucket.acquire(n), the body under self._lock.  The body has no
\* suspension point, so it is one step to every other coroutine.
BucketAcquire(n) ==
    LET elapsed  == now - last_update
        refilled == Refill(tokens, elapsed)
    IN  /\ last_update' = NextLastUpdate(last_update, now)
        /\ tokens' = IF AcquireResult(n) THEN refilled - n ELSE refilled

\* a call of acquire(n), with its history
Acquire ==
    /\ \E n \in 0..MaxAcquire :
          /\ BucketAcquire(n)
          /\ granted' = IF AcquireResult(n)
                        THEN [granted EXCEPT ![now] = @ + n]
                        ELSE granted
          /\ lastAcquire' = [n |-> n, ok |-> AcquireResult(n), before |-> tokens,
                             calls |-> 1]
    /\ UNCHANGED <<now, cacheVars, queueVars, breakerVars, appVars, routerVars, lifeVars, respVars, monVars>>

BucketInit ==
    /\ tokens = BucketCapacity
    /\ last_update = now
    /\ granted = [t \in Times |-> 0]
    /\ lastAcquire = NoCall

(***************************************************************************)
(* LRUCache (src/cache/lru_cache.py)                                       *)
(***************************************************************************)
Keys == {"k1", "k2", "k3"}

Values == {"v1", "v2"}

\* the expire arguments of set: 0 is None (the cache's ttl is used), 1 is a
\* lifetime shorter than the ttl
Expires == {0, 1}

\* what get returns for a miss
None == "None"

\* sys.getsizeof(item.value), in size units
SizeOf(v) == IF v = "v1" THEN 1 ELSE 2

\* the memory ceilings a cache is built with; 0 is max_memory_mb = None
MemoryCeilings == {0, 3}

NoCacheOp == [op |-> "none", key |-> None, result |-> None, found |-> "absent",
              evicted |-> FALSE]

CacheKeys(c) == {c[i].key : i \in 1..Len(c)}

\* self.cache[key]
CacheItem(c, k) == c[CHOOSE i \in 1..Len(c) : c[i].key = k]

\* the OrderedDict without key k
WithoutKey(c, k) == SelectSeq(c, LAMBDA e : e.key # k)

\* mutant: an entry is kept one tick past its expiry
ExpiredLate(item, t) == item.expire_at # 0 /\ t > item.expire_at + 1

\* item.expire_at and current_time > item.expire_at
Expired(item, t) == item.expire_at # 0 /\ t > item.expire_at

\* mutant: the capacity test is off by one
OverCapacityByTwo(c) == Len(c) > CacheCapacity + 1

\* len(self.cache) > self.capacity
OverCapacity(c) == Len(c) > CacheCapacity

RECURSIVE MemoryUsage(_)
\* LRUCache._estimate_memory_usage
MemoryUsage(c) ==
    IF c = <<>> THEN 0 ELSE SizeOf(Head(c).value) + MemoryUsage(Tail(c))

RECURSIVE CleanupByMemory(_, _)
\* LRUCache._cleanup_by_memory: pop the oldest while the estimate is at the ceiling
CleanupByMemory(c, ceiling) ==
    IF ceiling # 0 /\ MemoryUsage(c) >= ceiling /\ c # <<>>
    THEN CleanupByMemory(Tail(c), ceiling)
    ELSE c

RECURSIVE EvictOverCapacity(_)
\* while len(self.cache) > self.capacity: self.cache.popitem(last=False)
EvictOverCapacity(c) == IF OverCapacity(c) THEN EvictOverCapacity(Tail(c)) ELSE c

\* LRUCache._cleanup: drop the expired entries, then the oldest over capacity
Cleanup(c, t) == EvictOverCapacity(SelectSeq(c, LAMBDA e : ~Expired(e, t)))

\* LRUCache.get(key), the body under self._lock.  CacheItem.access_count and
\* created_at, which no operation of the cache reads, are not carried.
Get(k) ==
    /\ hits + misses < MaxGets
    /\ IF k \notin CacheKeys(cache)
       THEN /\ misses' = misses + 1
            /\ cacheOp' = [op |-> "get", key |-> k, result |-> None,
                           found |-> "absent", evicted |-> FALSE]
            /\ UNCHANGED <<cache, hits>>
       ELSE LET item == CacheItem(cache, k)
            IN  IF Expired(item, now)
                THEN /\ cache' = WithoutKey(cache, k)
                     /\ misses' = misses + 1
                     /\ cacheOp' = [op |-> "get", key |-> k, result |-> None,
                                    found |-> "expired", evicted |-> FALSE]
                     /\ UNCHANGED hits
                ELSE /\ cache' = Append(WithoutKey(cache, k), item)
                     /\ hits' = hits + 1
                     /\ cacheOp' = [op |-> "get", key |-> k, result |-> item.value,
                                    found |-> "live", evicted |-> FALSE]
                     /\ UNCHANGED misses
    /\ UNCHANGED <<now, max_memory>>

\* LRUCache.set(key, value, expire), the body under self._lock; expire = 0
\* stands for None, which "expire or self.ttl" treats alike
Set(k, v, expire) ==
    LET trimmed == IF max_memory # 0 /\ MemoryUsage(cache) >= max_memory
                   THEN CleanupByMemory(cache, max_memory)
                   ELSE cache
        item == [key |-> k, value |-> v,
                 expire_at |-> now + (IF expire # 0 THEN expire ELSE DefaultTtl)]
        stored == Append(WithoutKey(trimmed, k), item)
    IN  /\ cache' = Cleanup(stored, now)
        /\ cacheOp' = [op |-> "set", key |-> k, result |-> None, found |-> "absent",
                       evicted |-> OverCapacity(stored)]
        /\ UNCHANGED <<now, hits, misses, max_memory>>

\* LRUCache.clear
Clear ==
    /\ cache # <<>>
    /\ cache' = <<>>
    /\ cacheOp' = [NoCacheOp EXCEPT !.op = "clear"]
    /\ UNCHANGED <<now, hits, misses, max_memory>>

CacheInit ==
    /\ cache = <<>>
    /\ hits = 0
    /\ misses = 0
    /\ max_memory \in MemoryCeilings
    /\ cacheOp = NoCacheOp

(***************************************************************************)
(* TaskQueue, Consumer and Task (src/queue/task_queue.py)                  *)
(***************************************************************************)
\* TaskPriority: LOW = 0, NORMAL = 1, HIGH = 2
LOW == 0
NORMAL == 1
HIGH == 2
Priorities == {LOW, NORMAL, HIGH}

\* the task_type arguments of add_task
TaskTypes == {"default", "email"}

\* the order of Python's str comparison on the task types
TypeRank(ty) == IF ty = "default" THEN 0 ELSE 1

\* the callbacks a task is created with: none, one that returns, one that raises
Callbacks == {"none", "returns", "raises"}

\* the consumers TaskQueue.start creates: consumer-0 .. consumer-(max_workers-1)
Consumers == 0..(max_workers - 1)

\* Consumer.task_types of the consumers TaskQueue.start creates
ConsumerTaskTypes(w) == {"default"}

TaskIds == 1..Len(tasks)

\* Task.__lt__ on the tasks of two queue entries:
\* self.priority.value > other.priority.value
TaskLess(a, b) == a.priority > b.priority

\* a < b on the queue's entries, the tuples (priority.value, task_type, task):
\* Python compares the first components that differ
EntryLess(a, b) ==
    \/ a.prio < b.prio
    \/ a.prio = b.prio /\ TypeRank(a.type) < TypeRank(b.type)
    \/ a.prio = b.prio /\ a.type = b.type /\ a.id # b.id /\ TaskLess(a, b)

\* heap[pos] with Python's positions, which start at 0
At(h, pos) == h[pos + 1]

Put(h, pos, item) == [h EXCEPT ![pos + 1] = item]

RECURSIVE SiftDown(_, _, _, _)
\* heapq._siftdown: move newitem from pos towards startpos past greater parents
SiftDown(h, newitem, startpos, pos) ==
    IF pos > startpos
    THEN LET parentpos == (pos - 1) \div 2
             parent    == At(h, parentpos)
         IN  IF EntryLess(newitem, parent)
             THEN SiftDown(Put(h, pos, parent), newitem, startpos, parentpos)
             ELSE Put(h, pos, newitem)
    ELSE Put(h, pos, newitem)

RECURSIVE SiftUpLoop(_, _, _)
\* the loop of heapq._siftup: bubble the smaller child up until a leaf is hit;
\* yields the heap and the position of the leaf
SiftUpLoop(h, pos, endpos) ==
    LET childpos == 2 * pos + 1
        rightpos == childpos + 1
        smaller  == IF rightpos < endpos
                       /\ ~EntryLess(At(h, childpos), At(h, rightpos))
                    THEN rightpos
                    ELSE childpos
    IN  IF childpos < endpos
        THEN SiftUpLoop(Put(h, pos, At(h, smaller)), smaller, endpos)
        ELSE <<h, pos>>

\* heapq._siftup
SiftUp(h, pos) ==
    LET newitem == At(h, pos)
        leaf    == SiftUpLoop(h, pos, Len(h))
    IN  SiftDown(leaf[1], newitem, pos, leaf[2])

\* asyncio.PriorityQueue._put: heapq.heappush
HeapPush(h, item) == SiftDown(Append(h, item), item, 0, Len(h))

\* asyncio.PriorityQueue._get: the heap heapq.heappop leaves; it returns h[1]
HeapPop(h) ==
    LET lastelt == h[Len(h)]
        rest    == SubSeq(h, 1, Len(h) - 1)
    IN  IF rest # <<>> THEN SiftUp(Put(rest, 0, lastelt), 0) ELSE rest

\* the queue entry (prio, ty, task), the task given by its id and its priority
Entry(prio, ty, id, priority) ==
    [prio |-> prio, type |-> ty, id |-> id, priority |-> priority]

\* TaskQueue.add_task: create the Task and put (priority.value, task_type, task).
\* runs, fails and called are history: the number of times task.func was
\* invoked, the number of times it raised, the number of times task.callback
\* was invoked
AddTask(prio, ty, retries, cb) ==
    LET id == Len(tasks) + 1
        task == [priority |-> prio, status |-> "PENDING", retry_count |-> 0,
                 max_retries |-> retries, callback |-> cb,
                 result |-> None, error |-> None,
                 runs |-> 0, fails |-> 0, called |-> 0]
    IN  /\ Len(tasks) < MaxTasks
        /\ tasks' = Append(tasks, task)
        /\ heap' = HeapPush(heap, Entry(prio, ty, id, prio))
        /\ UNCHANGED <<pc, current_task, lastCancel>>

\* Consumer.start: get_task and, when it returns a task, the head of
\* _process_task up to "await task.func(...)".  A get on a non-empty queue
\* does not suspend, so the pop, the type test and the first assignments of
\* _process_task are one step.
GetTask(w) ==
    /\ pc[w] = "get"
    /\ heap # <<>>
    /\ LET entry  == heap[1]
           popped == HeapPop(heap)
       IN  IF entry.type \in ConsumerTaskTypes(w)
           THEN /\ heap' = popped
                /\ tasks' = [tasks EXCEPT ![entry.id].status = "RUNNING",
                                          ![entry.id].runs = @ + 1]
                /\ current_task' = [current_task EXCEPT ![w] = entry.id]
                /\ pc' = [pc EXCEPT ![w] = "func"]
           ELSE \* the type does not match: put the task back
                /\ heap' = HeapPush(popped,
                                    Entry(tasks[entry.id].priority, entry.type,
                                          entry.id, tasks[entry.id].priority))
                /\ UNCHANGED <<tasks, pc, current_task>>
    /\ UNCHANGED lastCancel

\* the finally clause of _process_task, back to the loop of Consumer.start
Finally(w) ==
    /\ current_task' = [current_task EXCEPT ![w] = 0]
    /\ pc' = [pc EXCEPT ![w] = "get"]

\* mutant: the task is given up one failure early
CanRetryOneLess(task) == task.retry_count + 1 < task.max_retries

\* mutant: the task is retried once more than max_retries
CanRetryOneMore(task) == task.retry_count <= task.max_retries

\* task.retry_count < task.max_retries
CanRetry(task) == task.retry_count < task.max_retries

\* the except clause of _process_task up to "await asyncio.sleep(retry_delay)";
\* raised tells whether the exception came from task.func
Except(w, raised) ==
    LET id == current_task[w]
        task == [tasks[id] EXCEPT !.error = "e",
                                  !.fails = IF raised THEN @ + 1 ELSE @]
    IN  IF CanRetry(task)
        THEN /\ tasks' = [tasks EXCEPT ![id] =
                             [task EXCEPT !.retry_count = @ + 1,
                                          !.status = "RETRYING"]]
             /\ pc' = [pc EXCEPT ![w] = "sleep"]
             /\ UNCHANGED current_task
        ELSE /\ tasks' = [tasks EXCEPT ![id] = [task EXCEPT !.status = "FAILED"]]
             /\ Finally(w)

\* task.func returns: the task is COMPLETED and the callback, if any, is awaited
FuncReturns(w) ==
    /\ pc[w] = "func"
    /\ LET id == current_task[w]
       IN  /\ tasks' = [tasks EXCEPT ![id].status = "COMPLETED",
                                     ![id].result = "value",
                                     ![id].called = IF tasks[id].callback # "none"
                                                    THEN @ + 1 ELSE @]
           /\ IF tasks[id].callback # "none"
              THEN pc' = [pc EXCEPT ![w] = "callback"] /\ UNCHANGED current_task
              ELSE Finally(w)
    /\ UNCHANGED <<heap, lastCancel>>

\* task.func raises
FuncRaises(w) ==
    /\ pc[w] = "func"
    /\ Except(w, TRUE)
    /\ UNCHANGED <<heap, lastCancel>>

\* the awaited callback returns, or raises inside the try block
CallbackDone(w) ==
    /\ pc[w] = "callback"
    /\ IF tasks[current_task[w]].callback = "raises"
       THEN Except(w, FALSE)
       ELSE Finally(w) /\ UNCHANGED tasks
    /\ UNCHANGED <<heap, lastCancel>>

\* asyncio.sleep(retry_delay) is over: TaskQueue.retry_task puts
\* (priority.value, "default", task), then the finally clause
RetryTask(w) ==
    /\ pc[w] = "sleep"
    /\ LET id == current_task[w]
       IN  heap' = HeapPush(heap, Entry(tasks[id].priority, "default", id,
                                        tasks[id].priority))
    /\ Finally(w)
    /\ UNCHANGED <<tasks, lastCancel>>

\* mutant: a RUNNING task is cancelled too
CanCancelRunning(status) == status \in {"PENDING", "RETRYING", "RUNNING"}

\* task.status in [TaskStatus.PENDING, TaskStatus.RETRYING]
CanCancel(status) == status \in {"PENDING", "RETRYING"}

\* TaskQueue.cancel_task(task_id): False for an id self.tasks does not hold,
\* else True and CANCELLED for a task that may be cancelled, else False
CancelTask(id) ==
    /\ IF id \in TaskIds /\ CanCancel(tasks[id].status)
       THEN tasks' = [tasks EXCEPT ![id].status = "CANCELLED"]
       ELSE UNCHANGED tasks
    /\ lastCancel' =
           [id |-> id,
            returned |-> id \in TaskIds /\ CanCancel(tasks[id].status),
            before |-> IF id \in TaskIds THEN tasks[id].status ELSE "not_found"]
    /\ UNCHANGED <<heap, pc, current_task>>

\* TaskQueue.__init__ and TaskQueue.start: an empty queue, the consumers waiting
QueueInit ==
    /\ heap = <<>>
    /\ tasks = <<>>
    /\ pc = [w \in Consumers |-> "get"]
    /\ current_task = [w \in Consumers |-> 0]
    /\ lastCancel = [id |-> 0, returned |-> FALSE, before |-> "none"]

(***************************************************************************)
(* CircuitBreaker (src/circuit_breaker.py)                                 *)
(***************************************************************************)
\* mutant: the breaker opens one failure late
TripsLate(n) == n > failure_threshold

\* self.failures >= self.failure_threshold
Trips(n) == n >= failure_threshold

\* current_time - self.last_failure_time > self.reset_timeout
TimedOut(t) == t - last_failure_time > reset_timeout

\* CircuitBreaker.__call__(scope, 'before') raises
BreakerRejects == state = "OPEN" /\ ~TimedOut(now)

\* CircuitBreaker.__call__(scope, 'before') for request r
BreakerBefore(r) ==
    /\ state' = IF state = "OPEN" /\ TimedOut(now) THEN "HALF-OPEN" ELSE state
    /\ breakerHist' = [breakerHist EXCEPT
                          !.event = IF BreakerRejects THEN "reject" ELSE "admit",
                          !.req = r]
    /\ UNCHANGED <<failures, last_failure_time>>

\* scope.get('status_code', 200); 0 stands for a scope without the key
StatusOr200(status_code) == IF status_code = 0 THEN 200 ELSE status_code

\* CircuitBreaker.__call__(scope, 'after') for request r
BreakerAfter(r, status_code) ==
    IF StatusOr200(status_code) >= 500
    THEN /\ failures' = failures + 1
         /\ last_failure_time' = now
         /\ state' = IF Trips(failures + 1) THEN "OPEN" ELSE state
         /\ breakerHist' = [event |-> "failure", req |-> r,
                            consecutive |-> breakerHist.consecutive + 1]
    ELSE /\ state' = IF state = "HALF-OPEN" THEN "CLOSED" ELSE state
         /\ failures' = 0
         /\ breakerHist' = [event |-> "success", req |-> r, consecutive |-> 0]
         /\ UNCHANGED last_failure_time

\* CircuitBreaker.__init__
BreakerInit ==
    /\ state = "CLOSED"
    /\ failures = 0
    /\ last_failure_time = 0
    /\ breakerHist = [event |-> "none", req |-> 0, consecutive |-> 0]

(***************************************************************************)
(* FlawlessAPI: the middleware chain around handle_request                 *)
(* (src/router/core.py)                                                    *)
(***************************************************************************)
\* the requests that may be in flight at once
Requests == {1, 2}

BREAKER == <<"breaker", 0>>
LIMITER == <<"limiter", 0>>
MONITOR == <<"monitor", 0>>
TRACER == <<"tracer", 0>>

\* the k-th middleware registered through add_middleware
UserMiddleware(k) == <<"user", k>>

\* FlawlessAPI._init_default_middlewares
DefaultMiddlewares == <<BREAKER, LIMITER, MONITOR, TRACER>>

\* what handle_request meets: no route (or method) matches, the handler
\* returns a response with code 200 or with code 500, the handler raises an
\* exception, the handler raises APIError with code 400
HandlerOutcomes ==
    {"not_found", "returns_200", "returns_500", "raises", "raises_api_400"}

\* scope['status_code'] as handle_request sets it
ScopeStatus(outcome) ==
    CASE outcome = "not_found" -> 404
      [] outcome \in {"returns_200", "returns_500"} -> 200
      [] OTHER -> 500

\* the status of the http.response.start that handle_request sends: the code of
\* the response (_send_response), of the error response (ErrorHandler.handle)
SentStatus(outcome) ==
    CASE outcome = "not_found" -> 404
      [] outcome = "returns_200" -> 200
      [] outcome = "returns_500" -> 500
      [] outcome = "raises" -> 500
      [] OTHER -> 400

\* a scope as the gateway hands it over, before the chain is entered; sent
\* lists the statuses of the http.response.start messages passed to send,
\* escaped tells that an exception is on its way out of the chain
NoRequest ==
    [pc |-> "idle", chain |-> <<>>, stack |-> <<>>, idx |-> 0, status_code |-> 0,
     log |-> <<>>, sent |-> <<>>, raised |-> FALSE, outcome |-> "none",
     rejected |-> "none", probe |-> FALSE, escaped |-> FALSE]

\* the loop of _compile_middleware_chain: wrapping from the last middleware to
\* the first leaves the first one outermost; the chain is listed outermost first
Compile(stack) == stack

\* FlawlessAPI._compile_middleware_chain: the cached chain when there is one
CompileMiddlewareChain ==
    IF compiled_chain.compiled THEN compiled_chain.chain ELSE Compile(middleware_stack)

\* FlawlessAPI.add_middleware: appends and sets _compiled_middleware, an
\* attribute nothing reads; _compiled_chain is left as it is
AddMiddleware ==
    /\ Len(middleware_stack) < Len(DefaultMiddlewares) + MaxAddMiddleware
    /\ middleware_stack' =
           Append(middleware_stack,
                  UserMiddleware(Len(middleware_stack) - Len(DefaultMiddlewares) + 1))
    /\ UNCHANGED <<compiled_chain, req>>

\* FlawlessAPI.process_middlewares up to the first hook of the chain
ProcessMiddlewares(r) ==
    /\ compiled_chain' = [compiled |-> TRUE, chain |-> CompileMiddlewareChain]
    /\ req' = [req EXCEPT ![r] =
                  [NoRequest EXCEPT !.pc = IF CompileMiddlewareChain = <<>>
                                            THEN "handler" ELSE "before",
                                    !.chain = CompileMiddlewareChain,
                                    !.stack = middleware_stack,
                                    !.idx = 1]]
    /\ UNCHANGED middleware_stack

\* FlawlessAPI.__call__ with an http scope on a framework that has started up
\* (the first calls are StartupBegin, StartupEnd below): the chain is compiled
\* or taken from the cache and entered
Arrive(r) ==
    /\ req[r].pc \in {"idle", "done"}
    /\ ProcessMiddlewares(r)

\* a wrapper returns to the wrapper around it, which runs its 'after' hook;
\* the outermost wrapper returns to process_middlewares
Unwind(q, idx) ==
    [q EXCEPT !.idx = idx, !.pc = IF idx = 0 THEN "done" ELSE "after"]

\* wrapper: "await middleware(scope, 'before')" returned
Passed(r, m) ==
    req' = [req EXCEPT ![r].log = Append(@, <<m, "before">>),
                       ![r].idx = @ + 1,
                       ![r].pc = IF req[r].idx = Len(req[r].chain)
                                 THEN "handler" ELSE "before"]

\* FlawlessAPI._handle_middleware_error: error_response(code=..., message=...,
\* detail=...) is called with a keyword that response.error_response does not
\* take, so the call raises TypeError before anything is sent.  The TypeError
\* leaves the wrapper; each enclosing wrapper runs its 'after' hook and raises
\* it again, and process_middlewares, whose handler _handle_system_error is
\* not defined, lets an exception out of __call__ to the gateway.
HandleMiddlewareError(q) == [q EXCEPT !.raised = TRUE, !.escaped = TRUE]

\* mutant: the exception of a 'before' hook ends the request at once, the
\* enclosing wrappers do not run their 'after' hooks
RaisedSkipsAfters(r, m) ==
    req' = [req EXCEPT ![r] =
               Unwind(HandleMiddlewareError(
                          [req[r] EXCEPT !.log = Append(@, <<m, "before">>),
                                         !.rejected = m[1]]),
                      0)]

\* wrapper: "await middleware(scope, 'before')" raised
Raised(r, m) ==
    req' = [req EXCEPT ![r] =
               Unwind(HandleMiddlewareError(
                          [req[r] EXCEPT !.log = Append(@, <<m, "before">>),
                                         !.rejected = m[1]]),
                      req[r].idx - 1)]

\* the 'before' hook of the circuit breaker
BeforeBreaker(r) ==
    /\ req[r].pc = "before"
    /\ req[r].chain[req[r].idx] = BREAKER
    /\ BreakerBefore(r)
    /\ IF BreakerRejects
       THEN Raised(r, BREAKER)
       ELSE req' = [req EXCEPT
                       ![r].log = Append(@, <<BREAKER, "before">>),
                       ![r].idx = @ + 1,
                       ![r].pc = IF req[r].idx = Len(req[r].chain)
                                 THEN "handler" ELSE "before",
                       ![r].probe = (state = "OPEN")]
    /\ UNCHANGED <<now, tokens, last_update, middleware_stack, compiled_chain>>

\* the 'before' hook of the rate limiter: RateLimiter.__call__
BeforeLimiter(r) ==
    /\ req[r].pc = "before"
    /\ req[r].chain[req[r].idx] = LIMITER
    /\ BucketAcquire(1)
    /\ IF AcquireResult(1) THEN Passed(r, LIMITER) ELSE Raised(r, LIMITER)
    /\ UNCHANGED <<now, breakerVars, middleware_stack, compiled_chain>>

\* the 'before' hook of the monitor, of the tracer or of a registered
\* middleware; a registered middleware may raise
BeforeOther(r) ==
    /\ req[r].pc = "before"
    /\ LET m == req[r].chain[req[r].idx]
       IN  /\ m \notin {BREAKER, LIMITER}
           /\ \/ Passed(r, m)
              \/ m[1] = "user" /\ Raised(r, m)
    /\ UNCHANGED <<now, tokens, last_update, breakerVars, middleware_stack,
                   compiled_chain>>

\* FlawlessAPI.handle_request: the route lookup, the handler, scope['status_code']
\* and the response
HandleRequest(r) ==
    /\ req[r].pc = "handler"
    /\ \E outcome \in HandlerOutcomes :
          req' = [req EXCEPT ![r] =
                     Unwind([req[r] EXCEPT
                                !.outcome = outcome,
                                !.status_code = ScopeStatus(outcome),
                                !.log = IF outcome = "not_found"
                                        THEN @ ELSE Append(@, <<"handler">>),
                                !.sent = Append(@, SentStatus(outcome)),
                                !.raised = @ \/ outcome \in {"raises", "raises_api_400"}],
                            Len(req[r].chain))]
    /\ UNCHANGED <<now, tokens, last_update, breakerVars, middleware_stack,
                   compiled_chain>>

\* the 'after' hook of the circuit breaker
AfterBreaker(r) ==
    /\ req[r].pc = "after"
    /\ req[r].chain[req[r].idx] = BREAKER
    /\ BreakerAfter(r, req[r].status_code)
    /\ req' = [req EXCEPT ![r] =
                  Unwind([req[r] EXCEPT !.log = Append(@, <<BREAKER, "after">>)],
                         req[r].idx - 1)]
    /\ UNCHANGED <<now, tokens, last_update, middleware_stack, compiled_chain>>

\* the 'after' hook of another middleware; the rate limiter does nothing, a
\* registered middleware may raise: on the way back from the handler the
\* wrapper calls _handle_middleware_error, while an exception is passing
\* through the wrapper the hook's own exception is dropped ("except: pass")
AfterOther(r) ==
    /\ req[r].pc = "after"
    /\ LET m == req[r].chain[req[r].idx]
       IN  /\ m # BREAKER
           /\ \/ req' = [req EXCEPT ![r] =
                            Unwind([req[r] EXCEPT !.log = Append(@, <<m, "after">>)],
                                   req[r].idx - 1)]
              \/ /\ m[1] = "user"
                 /\ req' = [req EXCEPT ![r] =
                               Unwind(HandleMiddlewareError(
                                          [req[r] EXCEPT
                                              !.log = Append(@, <<m, "after">>)]),
                                      req[r].idx - 1)]
    /\ UNCHANGED <<now, tokens, last_update, breakerVars, middleware_stack,
                   compiled_chain>>

\* FlawlessAPI.__init__: the default middlewares, no chain compiled yet
AppInit ==
    /\ middleware_stack = DefaultMiddlewares
    /\ compiled_chain = [compiled |-> FALSE, chain |-> <<>>]
    /\ req = [r \in Requests |-> NoRequest]

(***************************************************************************)
(* The router: add_route and find_route over the trie of TrieNode          *)
(* (src/router/core.py, src/router/patterns.py) and the RouteCache         *)
(* (src/router/cache.py).  A path is the sequence of the pieces between    *)
(* its slashes: "/" is <<"">>, "/a/" is <<"a", "">>, "//a" is <<"", "a">>. *)
(***************************************************************************)
\* RouteCache(2000)
RouteCacheCapacity == 2000

LiteralSegments == {"a"}

ParamSegments == {"{id}", "{uid}"}

\* the segments a registered pattern is made of
PatternSegments == LiteralSegments \cup ParamSegments \cup {"*", ""}

\* the segments a request path is made of: "x" is a segment no pattern names
RequestSegments == LiteralSegments \cup {"x", ""}

\* the paths of at most MaxSegments pieces over a set of segments that begin
\* with a single slash
PathsOver(segments) ==
    {p \in UNION {[1..n -> segments] : n \in 1..MaxSegments} :
        Len(p) = 1 \/ p[1] # ""}

Handlers == {"h1", "h2"}

\* part.startswith('{') and part.endswith('}')
IsParam(part) == part \in ParamSegments

\* part[1:-1]
ParamName(part) == IF part = "{id}" THEN "id" ELSE "uid"

RECURSIVE LStrip(_)
\* path.lstrip('/'): the leading slashes, that is the leading empty pieces, go
LStrip(path) ==
    IF path # <<>> /\ Head(path) = "" THEN LStrip(Tail(path)) ELSE path

\* path.lstrip('/').split('/'): splitting the empty string gives ['']
Split(path) == IF LStrip(path) = <<>> THEN <<"">> ELSE LStrip(path)

\* TrieNode(): is_wildcard and pattern, which no lookup reads, are not carried
TrieNode == [handler |-> None, is_endpoint |-> FALSE, param_name |-> None]

\* the key under which add_route files a part in current.children
ChildKey(part) == IF IsParam(part) THEN "*" ELSE part

\* the node add_route stands on after the first i parts
NodeAfter(parts, i) == [j \in 1..i |-> ChildKey(parts[j])]

\* node.children
Children(trie, node) ==
    {k \in PatternSegments : Append(node, k) \in DOMAIN trie}

\* FlawlessAPI.add_route(path, handler): the trie after the walk that creates
\* the missing nodes and names the parameter nodes, with the last node made
\* the endpoint of handler
Inserted(trie, parts, handler) ==
    LET walked == {NodeAfter(parts, i) : i \in 1..Len(parts)}
        Node(n) == IF n \in DOMAIN trie THEN trie[n] ELSE TrieNode
        Named(n) == IF IsParam(parts[Len(n)])
                    THEN [Node(n) EXCEPT !.param_name = ParamName(parts[Len(n)])]
                    ELSE Node(n)
    IN  [n \in DOMAIN trie \cup walked |->
            IF n \notin walked THEN trie[n]
            ELSE IF Len(n) = Len(parts)
                 THEN [Named(n) EXCEPT !.handler = handler, !.is_endpoint = TRUE]
                 ELSE Named(n)]

\* FlawlessAPI.add_route(path, handler)
AddRoute(path, handler) ==
    /\ Cardinality(DOMAIN routes) < MaxRoutes \/ path \in DOMAIN routes
    /\ routes' = [p \in DOMAIN routes \cup {path} |->
                     IF p = path THEN handler ELSE routes[p]]
    /\ root' = Inserted(root, Split(path), handler)
    /\ UNCHANGED <<route_cache, finds, access_count>>

\* the result find_route returns for no match: (None, None, {})
NoRoute == [handler |-> None, params |-> <<>>]

\* params[current.param_name] = part
Bind(params, name, value) ==
    [n \in DOMAIN params \cup {name} |-> IF n = name THEN value ELSE params[n]]

RECURSIVE Walk(_, _, _, _)
\* the loop of find_route over path_parts and the test of is_endpoint after it:
\* an empty part is skipped, an exact child is preferred, else the '*' child is
\* taken, else the lookup ends; no step is ever taken back
Walk(trie, current, parts, params) ==
    IF parts = <<>>
    THEN IF trie[current].is_endpoint
         THEN [handler |-> trie[current].handler, params |-> params]
         ELSE NoRoute
    ELSE LET part == Head(parts)
         IN  IF part = ""
             THEN Walk(trie, current, Tail(parts), params)
             ELSE IF part \in Children(trie, current)
             THEN Walk(trie, Append(current, part), Tail(parts), params)
             ELSE IF "*" \in Children(trie, current)
             THEN LET star == Append(current, "*")
                  IN  Walk(trie, star, Tail(parts),
                           IF trie[star].param_name # None
                           THEN Bind(params, trie[star].param_name, part)
                           ELSE params)
             ELSE NoRoute

\* the trie lookup of find_route, without the cache
TrieLookup(path) == Walk(root, <<>>, Split(path), <<>>)

\* if self.access_count[key] > 1000
HotThreshold == 1000

\* RouteCache.hot_routes: get adds a key once its access_count exceeds the
\* threshold, nothing removes one, and access_count only grows
HotRoutes == {path \in DOMAIN access_count : access_count[path] > HotThreshold}

\* RouteCache.get(cache_key), LRUCache.get: the value stored under path unless
\* it is absent or expired, whether the key is a hot route or not
RouteCacheHit(path) ==
    /\ path \in CacheKeys(route_cache)
    /\ ~Expired(CacheItem(route_cache, path), now)

\* the OrderedDict after RouteCache.get(cache_key): an expired entry is popped,
\* a hit is moved to the end
RouteCacheAfterGet(path) ==
    IF path \notin CacheKeys(route_cache) THEN route_cache
    ELSE IF Expired(CacheItem(route_cache, path), now)
         THEN WithoutKey(route_cache, path)
         ELSE Append(WithoutKey(route_cache, path), CacheItem(route_cache, path))

RECURSIVE EvictOverRouteCapacity(_)
\* while len(self.cache) > self.capacity: self.cache.popitem(last=False)
EvictOverRouteCapacity(c) ==
    IF Len(c) > RouteCacheCapacity THEN EvictOverRouteCapacity(Tail(c)) ELSE c

\* RouteCache.set(cache_key, result), LRUCache.set and _cleanup: the entry is
\* stored with the cache's ttl, the expired entries and those over capacity go
RouteCacheAfterSet(c, path, result) ==
    EvictOverRouteCapacity(
        SelectSeq(Append(WithoutKey(c, path),
                         [key |-> path, value |-> result, expire_at |-> now + RouteTtl]),
                  LAMBDA e : ~Expired(e, now)))

\* what find_route(path) returns
FindResult(path) ==
    IF RouteCacheHit(path)
    THEN CacheItem(route_cache, path).value
    ELSE TrieLookup(path)

\* FlawlessAPI.find_route(path): the cached result when there is one, else the
\* trie lookup, whose result is cached when it is a match
FindRoute(path) ==
    /\ Len(finds) < MaxFinds
    /\ finds' = Append(finds, [path |-> path, result |-> FindResult(path),
                               cached |-> RouteCacheHit(path)])
    /\ route_cache' =
           IF RouteCacheHit(path) \/ TrieLookup(path) = NoRoute
           THEN RouteCacheAfterGet(path)
           ELSE RouteCacheAfterSet(RouteCacheAfterGet(path), path, TrieLookup(path))
    /\ access_count' = [access_count EXCEPT ![path] = @ + 1]
    /\ UNCHANGED <<root, routes>>

\* the methods argument each handler is registered with; add_route stores
\* handler and methods on the endpoint together and find_route returns them
\* together, so the methods of a result are those of its handler
MethodsOf(handler) == IF handler = "h1" THEN {"GET"} ELSE {"POST"}

\* handle_request: "if not handler or request_method not in methods" answers
\* 404, else the handler is called
Resolve(result, request_method) ==
    IF result.handler = None \/ request_method \notin MethodsOf(result.handler)
    THEN None
    ELSE result.handler

\* self.root = TrieNode(), no route, an empty RouteCache
RouterEmpty ==
    /\ root = [n \in {<<>>} |-> TrieNode]
    /\ routes = <<>>
    /\ route_cache = <<>>
    /\ finds = <<>>

\* FlawlessAPI.__init__: no lookup made yet
RouterInit ==
    /\ RouterEmpty
    /\ access_count = [path \in PathsOver(RequestSegments) |-> 0]

\* the router after HotThreshold lookups of one path, made while no route was
\* registered: each was a miss of the cache and of the trie, nothing is cached
RouterInitHot ==
    /\ RouterEmpty
    /\ \E hot \in PathsOver(LiteralSegments) :
           access_count = [path \in PathsOver(RequestSegments) |->
                              IF path = hot THEN HotThreshold ELSE 0]

(***************************************************************************)
(* The sweeper of a cache: LRUCache.start, _cleanup_loop, _cleanup_expired *)
(* (src/cache/lru_cache.py) and RouteCache._cleanup_expired                *)
(* (src/router/cache.py)                                                   *)
(***************************************************************************)
\* the caches: "lru" is an LRUCache, whose store is cache; "route" is the
\* RouteCache of the framework, whose store is route_cache
CacheKinds == {"lru", "route"}

\* LRUCache.start: the task running _cleanup_loop is created unless there is
\* one; the loop begins with asyncio.sleep(60)
CacheStart(c) ==
    sweeper' = [sweeper EXCEPT ![c].pc = IF @ = "none" THEN "sleep" ELSE @]

\* _cleanup_loop when asyncio.sleep(60) is over: self._cleanup_expired().
\* In an LRUCache the method reads self.timestamps, an attribute no class
\* defines: AttributeError leaves the loop and the task is over.  In a
\* RouteCache the method is a coroutine function: the call, which is not
\* awaited, creates a coroutine that never runs, and the loop sleeps again.
\* Neither touches the store.  sweeps is history: the calls made, up to
\* MaxSweeps.
CleanupLoop(c) ==
    /\ sweeper[c].pc = "sleep"
    /\ sweeper' = [sweeper EXCEPT
                      ![c].pc = IF c = "lru" THEN "failed" ELSE "sleep",
                      ![c].sweeps = Min(@ + 1, MaxSweeps)]

(***************************************************************************)
(* Startup and shutdown (src/router/core.py: __call__, startup, shutdown)  *)
(***************************************************************************)
\* self._run_event_handlers("startup"): every registered startup hook runs
RunStartupHooks(l) == [l EXCEPT !.startup_hooks = @ + 1]

\* __call__ with a lifespan scope, message lifespan.startup: the registered
\* startup hooks are run; startup() is not called
LifespanStartup ==
    /\ life.lifespan = "none"
    /\ life' = [RunStartupHooks(life) EXCEPT !.lifespan = "started"]
    /\ UNCHANGED <<startup_complete, background, sweeper, appVars, tasks>>

\* __call__ with a lifespan scope, message lifespan.shutdown: the registered
\* shutdown hooks are run; shutdown() is not called
LifespanShutdown ==
    /\ life.lifespan = "started"
    /\ life' = [life EXCEPT !.lifespan = "stopped"]
    /\ UNCHANGED <<startup_complete, background, sweeper, appVars, tasks>>

\* __call__ with an http scope while _startup_complete is not set: startup() is
\* entered; route_cache.start() creates the sweeper task unless there is one,
\* then startup() is suspended in redis_cache.connect()
StartupBegin(r) ==
    /\ req[r].pc = "idle"
    /\ ~startup_complete
    /\ req' = [req EXCEPT ![r].pc = "startup"]
    /\ background' = [background EXCEPT !.sweeper = TRUE]
    /\ CacheStart("route")
    /\ life' = [life EXCEPT !.startups = @ + 1]
    /\ UNCHANGED <<startup_complete, middleware_stack, compiled_chain, tasks>>

\* the rest of startup(): the metrics collection loop is created, the startup
\* hooks are run, task_queue.start() creates max_workers consumer loops when
\* the task queue is enabled; then _startup_complete is set and
\* process_middlewares is entered
StartupEnd(r) ==
    /\ req[r].pc = "startup"
    /\ background' =
           [background EXCEPT
               !.collectors = @ + 1,
               !.consumers = IF background.task_queue THEN @ + max_workers ELSE @,
               !.is_running = background.task_queue]
    /\ life' = [RunStartupHooks(life) EXCEPT !.finished = @ + 1]
    /\ startup_complete' = TRUE
    /\ ProcessMiddlewares(r)
    /\ UNCHANGED <<sweeper, tasks>>

\* __call__ with an http scope once _startup_complete is set
CallStarted(r) ==
    /\ req[r].pc \in {"idle", "done"}
    /\ startup_complete
    /\ ProcessMiddlewares(r)
    /\ UNCHANGED <<lifeVars, respVars, monVars, tasks>>

\* TaskQueue.stop, Consumer.stop of every consumer: is_running is cleared and
\* the task a consumer is processing is marked CANCELLED; a consumer waiting
\* in queue.get() is not woken
Stop ==
    /\ background' = [background EXCEPT !.is_running = FALSE]
    /\ tasks' = [id \in TaskIds |->
                    IF \E w \in Consumers : current_task[w] = id
                    THEN [tasks[id] EXCEPT !.status = "CANCELLED"]
                    ELSE tasks[id]]

\* FlawlessAPI.shutdown(): the connection pool and the redis cache are
\* closed, the shutdown hooks are run, the task queue, if any, is stopped;
\* the sweeper task and the collection loop are not touched
Shutdown ==
    /\ life.shutdown = "none"
    /\ life.finished > 0
    /\ IF background.task_queue THEN Stop ELSE UNCHANGED <<background, tasks>>
    /\ life' = [life EXCEPT !.shutdown = "returned"]
    /\ UNCHANGED <<startup_complete, sweeper, appVars>>

(***************************************************************************)
(* The emission of a response: AsyncResponse.send_json_response,           *)
(* send_error_response, send_file_response and _send_response              *)
(* (src/response.py).  A body is its length in bytes; a chunk is the slice *)
(* body[lo:hi].                                                            *)
(***************************************************************************)
\* _send_response: chunk_size = 8192
chunk_size == 8192

\* the lengths of the bodies sent: around every multiple of chunk_size
BodyLengths == {k * chunk_size + d : k \in 0..MaxChunks, d \in {0, 1, chunk_size - 1}}

\* json.dumps gives two bytes at least
JsonLengths == {n \in BodyLengths : n >= 2}

\* the body of send_error_response, {"code", "message", "timestamp"}: a
\* JSON object shorter than one chunk
ErrorLengths == {n \in JsonLengths : n < chunk_size}

StatusCodes == {200, 404, 500}

\* what the send callable does with a message
SendOutcomes == {"ok", "raises"}

StartMessage(status_code) ==
    [type |-> "http.response.start", status |-> status_code, lo |-> 0, hi |-> 0,
     more_body |-> FALSE]

BodyMessage(lo, hi, more_body) ==
    [type |-> "http.response.body", status |-> 0, lo |-> lo, hi |-> hi,
     more_body |-> more_body]

\* AsyncResponse(): no call under way
ResponseInit ==
    /\ emit = [pc |-> "idle", kind |-> "none", status |-> 0, len |-> 0, i |-> 0,
               depth |-> 0, attempts |-> 0]
    /\ wire = <<>>

\* a call of kind json or file reaches its _send_response(send, status_code,
\* body, headers) with a body of n bytes
BeginResponse(kind, status_code, n) ==
    /\ emit.pc \in {"idle", "returned", "raised"}
    /\ emit' = [pc |-> "start", kind |-> kind, status |-> status_code, len |-> n,
                i |-> 0, depth |-> 0, attempts |-> 0]
    /\ wire' = <<>>

\* send_json_response(send, status_code, body_dict): serialization_cache is
\* never written, so the body is serialised, perhaps compressed, and passed
\* to _send_response inside the try
SendJsonResponse(status_code, n) == BeginResponse("json", status_code, n)

\* send_file_response(send, file_path): the content of the file, which may
\* be empty, is passed to _send_response inside the try
SendFileResponse(n) == BeginResponse("file", 200, n)

\* send raised inside _send_response: `except Exception` of the caller runs
\* send_error_response(send, 500, str(e)), which calls send_json_response
\* with a new body (its timestamp makes every cache key new): one more
\* nested call, which begins with http.response.start again.  At the
\* interpreter's recursion limit the nested call raises RecursionError
\* inside the except block, and that leaves every enclosing call.
SendErrorResponse ==
    /\ IF emit.depth < RecursionLimit
       THEN \E n \in ErrorLengths :
               emit' = [pc |-> "start", kind |-> "json", status |-> 500, len |-> n,
                        i |-> 0, depth |-> emit.depth + 1,
                        attempts |-> emit.attempts + 1]
       ELSE emit' = [emit EXCEPT !.pc = "raised", !.attempts = @ + 1]
    /\ UNCHANGED wire

\* _send_response: await send({'type': 'http.response.start', ...}); the
\* loop over range(0, len(body), chunk_size) follows, which is empty for an
\* empty body
SendStart(outcome) ==
    /\ emit.pc = "start"
    /\ IF outcome = "ok"
       THEN /\ wire' = Append(wire, StartMessage(emit.status))
            /\ emit' = [emit EXCEPT !.pc = IF 0 < emit.len THEN "body" ELSE "returned",
                                    !.attempts = @ + 1]
       ELSE SendErrorResponse

\* _send_response, one turn of the loop: chunk = body[i:i + chunk_size],
\* more_body = i + chunk_size < len(body)
SendBody(outcome) ==
    /\ emit.pc = "body"
    /\ IF outcome = "ok"
       THEN /\ wire' = Append(wire, BodyMessage(emit.i, Min(emit.i + chunk_size, emit.len),
                                                emit.i + chunk_size < emit.len))
            /\ emit' = [emit EXCEPT !.i = @ + chunk_size,
                                    !.pc = IF emit.i + chunk_size < emit.len
                                           THEN "body" ELSE "returned",
                                    !.attempts = @ + 1]
       ELSE SendErrorResponse

(***************************************************************************)
(* The buffers of the monitor and of the tracer:                           *)
(* PerformanceMonitor.record_request (src/monitoring/monitoring.py) and    *)
(* DistributedTracer.trace_request, end_span (src/monitoring/tracer.py).   *)
(* A record and a span are the serial number of their request.             *)
(***************************************************************************)
\* PerformanceMonitor.__init__: self._max_stored_requests = 1000
max_stored_requests == 1000

\* the middleware calls a request makes
MonitorCalls == {"record_before", "trace_before", "record_after", "trace_after"}

\* PerformanceMonitor() and DistributedTracer() after n requests, n below
\* max_stored_requests: each request appended one record and one span
MonitorAfter(n) ==
    /\ requests = [k \in 1..n |-> k]
    /\ current_requests = n
    /\ spans = [k \in 1..n |-> k]
    /\ inflight = {}

\* PerformanceMonitor.__init__ and DistributedTracer.__init__
MonitorInit == MonitorAfter(0)

\* a request enters the chain once the one before it has left it
MonitorArrive ==
    /\ inflight = {}
    /\ current_requests < MaxServed
    /\ inflight' = MonitorCalls
    /\ UNCHANGED <<requests, current_requests, spans>>

\* the serial of the request in the chain
Serial == IF "record_before" \in inflight THEN current_requests + 1 ELSE current_requests

\* record_request(scope, timing): 'before' counts the request; 'after'
\* drops the oldest record when max_stored_requests are stored, then
\* appends the record of this request
RecordRequest(timing) ==
    /\ IF timing = "before"
       THEN /\ "record_before" \in inflight
            /\ inflight' = inflight \ {"record_before"}
            /\ current_requests' = current_requests + 1
            /\ UNCHANGED requests
       ELSE /\ "record_after" \in inflight
            /\ inflight \cap {"record_before", "trace_before"} = {}
            /\ inflight' = inflight \ {"record_after"}
            /\ requests' = Append(IF Len(requests) >= max_stored_requests
                                  THEN Tail(requests) ELSE requests, Serial)
            /\ UNCHANGED current_requests
    /\ UNCHANGED spans

\* trace_request(scope, timing): 'before' starts a span and keeps it in the
\* scope; 'after' calls end_span, which is self.spans.append(span)
TraceRequest(timing) ==
    /\ IF timing = "before"
       THEN /\ "trace_before" \in inflight
            /\ inflight' = inflight \ {"trace_before"}
            /\ UNCHANGED spans
       ELSE /\ "trace_after" \in inflight
            /\ inflight \cap {"record_before", "trace_before"} = {}
            /\ inflight' = inflight \ {"trace_after"}
            /\ spans' = Append(spans, Serial)
    /\ UNCHANGED <<requests, current_requests>>

\* FlawlessAPI.__init__: nothing started; enable_task_queue as configured
LifeInit ==
    /\ startup_complete = FALSE
    /\ background \in [sweeper : {FALSE}, collectors : {0}, consumers : {0},
                       is_running : {FALSE}, task_queue : BOOLEAN]
    /\ life = [startup_hooks |-> 0, startups |-> 0, finished |-> 0,
               lifespan |-> "none", shutdown |-> "none"]
    /\ sweeper = [c \in CacheKinds |-> [pc |-> "none", sweeps |-> 0]]

\* the components as constructed; the cache with any of the memory ceilings
InitAny ==
    /\ now = 1
    /\ BucketInit
    /\ CacheInit
    /\ QueueInit
    /\ BreakerInit
    /\ AppInit
    /\ RouterInit
    /\ LifeInit
    /\ ResponseInit
    /\ MonitorInit

\* the components as constructed with their defaults: max_memory_mb = None,
\* enable_task_queue = False
Init == InitAny /\ max_memory = 0 /\ ~background.task_queue

\* the framework as constructed, with or without the task queue
InitLife == InitAny /\ max_memory = 0

\* the components as constructed with their defaults, after HotThreshold
\* lookups of one path
InitHot ==
    /\ now = 1
    /\ BucketInit
    /\ CacheInit
    /\ max_memory = 0
    /\ QueueInit
    /\ BreakerInit
    /\ AppInit
    /\ RouterInitHot
    /\ LifeInit
    /\ ResponseInit
    /\ MonitorInit
    /\ ~background.task_queue

BucketTick == Tick /\ UNCHANGED <<bucketVars, cacheVars, queueVars, breakerVars, appVars, routerVars, lifeVars, respVars, monVars>>

CacheGet == \E k \in Keys : Get(k) /\ UNCHANGED <<bucketVars, queueVars, breakerVars, appVars, routerVars, lifeVars, respVars, monVars>>

CacheSet ==
    \E k \in Keys : \E v \in Values : \E expire \in Expires :
        Set(k, v, expire) /\ UNCHANGED <<bucketVars, queueVars, breakerVars, appVars, routerVars, lifeVars, respVars, monVars>>

CacheClear == Clear /\ UNCHANGED <<bucketVars, queueVars, breakerVars, appVars, routerVars, lifeVars, respVars, monVars>>

CacheTick == Tick /\ UNCHANGED <<bucketVars, cacheVars, queueVars, breakerVars, appVars, routerVars, lifeVars, respVars, monVars>>

NextCache ==
    \/ CacheGet
    \/ CacheSet
    \/ CacheClear
    \/ CacheTick

SpecCache == InitAny /\ [][NextCache]_vars

OtherThanQueue == <<now, bucketVars, cacheVars, breakerVars, appVars, routerVars, lifeVars, respVars, monVars>>

\* add_task with any priority and task type, max_retries = MaxRetries and no
\* callback
QueueAddTask ==
    \E prio \in Priorities : \E ty \in TaskTypes :
        AddTask(prio, ty, MaxRetries, "none") /\ UNCHANGED OtherThanQueue

QueueGetTask == \E w \in Consumers : GetTask(w) /\ UNCHANGED OtherThanQueue

QueueFuncReturns == \E w \in Consumers : FuncReturns(w) /\ UNCHANGED OtherThanQueue

QueueFuncRaises == \E w \in Consumers : FuncRaises(w) /\ UNCHANGED OtherThanQueue

QueueRetryTask == \E w \in Consumers : RetryTask(w) /\ UNCHANGED OtherThanQueue

\* the priority queue with its consumers: tasks of every priority and type
NextQueue ==
    \/ QueueAddTask
    \/ QueueGetTask
    \/ QueueFuncReturns
    \/ QueueFuncRaises
    \/ QueueRetryTask

SpecQueue == Init /\ [][NextQueue]_vars

\* add_task with any priority, task type and max_retries, no callback
FairAddTask ==
    /\ Len(tasks) < MaxFairTasks
    /\ \E prio \in Priorities : \E ty \in TaskTypes : \E retries \in 0..MaxRetries :
           AddTask(prio, ty, retries, "none")
    /\ UNCHANGED OtherThanQueue

\* the next step of consumer w: the loop of Consumer.start and _process_task
ConsumerStep(w) ==
    /\ GetTask(w) \/ FuncReturns(w) \/ FuncRaises(w) \/ RetryTask(w)
    /\ UNCHANGED OtherThanQueue

NextFair ==
    \/ FairAddTask
    \/ QueueGetTask
    \/ QueueFuncReturns
    \/ QueueFuncRaises
    \/ QueueRetryTask

\* the queue with its consumers scheduled fairly: the event loop resumes every
\* consumer that can take a step
SpecFair ==
    Init /\ [][NextFair]_vars /\ \A w \in Consumers : WF_vars(ConsumerStep(w))

OtherThanApp == <<granted, lastAcquire, cacheVars, queueVars, routerVars, lifeVars, respVars, monVars>>

AppAddMiddleware ==
    AddMiddleware /\ UNCHANGED <<now, bucketVars, breakerVars, OtherThanApp>>

AppArrive ==
    \E r \in Requests :
        Arrive(r) /\ UNCHANGED <<now, tokens, last_update, breakerVars, OtherThanApp>>

AppBeforeBreaker == \E r \in Requests : BeforeBreaker(r) /\ UNCHANGED OtherThanApp

AppBeforeLimiter == \E r \in Requests : BeforeLimiter(r) /\ UNCHANGED OtherThanApp

AppBeforeOther == \E r \in Requests : BeforeOther(r) /\ UNCHANGED OtherThanApp

AppHandleRequest == \E r \in Requests : HandleRequest(r) /\ UNCHANGED OtherThanApp

AppAfterBreaker == \E r \in Requests : AfterBreaker(r) /\ UNCHANGED OtherThanApp

AppAfterOther == \E r \in Requests : AfterOther(r) /\ UNCHANGED OtherThanApp

AppTick ==
    Tick /\ UNCHANGED <<bucketVars, cacheVars, queueVars, breakerVars, appVars, routerVars, lifeVars, respVars, monVars>>

\* the framework serving requests through its middleware chain
NextApp ==
    \/ AppAddMiddleware
    \/ AppArrive
    \/ AppBeforeBreaker
    \/ AppBeforeLimiter
    \/ AppBeforeOther
    \/ AppHandleRequest
    \/ AppAfterBreaker
    \/ AppAfterOther
    \/ AppTick

SpecApp == Init /\ [][NextApp]_vars

\* add_task with the default priority and task_type, any max_retries and callback
TaskAddTask ==
    \E retries \in 0..MaxRetries, cb \in Callbacks :
        /\ Len(tasks) < MaxSubmitted
        /\ AddTask(NORMAL, "default", retries, cb)
        /\ UNCHANGED OtherThanQueue

TaskGetTask == \E w \in Consumers : GetTask(w) /\ UNCHANGED OtherThanQueue

TaskFuncReturns == \E w \in Consumers : FuncReturns(w) /\ UNCHANGED OtherThanQueue

TaskFuncRaises == \E w \in Consumers : FuncRaises(w) /\ UNCHANGED OtherThanQueue

TaskCallbackDone == \E w \in Consumers : CallbackDone(w) /\ UNCHANGED OtherThanQueue

TaskRetryTask == \E w \in Consumers : RetryTask(w) /\ UNCHANGED OtherThanQueue

\* cancel_task with the id of a task or with an id the queue never issued
TaskCancelTask ==
    \E id \in 1..(Len(tasks) + 1) : CancelTask(id) /\ UNCHANGED OtherThanQueue

\* the running queue: tasks submitted, run, retried and cancelled
NextTask ==
    \/ TaskAddTask
    \/ TaskGetTask
    \/ TaskFuncReturns
    \/ TaskFuncRaises
    \/ TaskCallbackDone
    \/ TaskRetryTask
    \/ TaskCancelTask

SpecTask == Init /\ [][NextTask]_vars

OtherThanRouter == <<bucketVars, cacheVars, queueVars, breakerVars, appVars, lifeVars, respVars, monVars>>

RouterAddRoute ==
    \E path \in PathsOver(PatternSegments), handler \in Handlers :
        AddRoute(path, handler) /\ UNCHANGED <<now, OtherThanRouter>>

RouterFindRoute ==
    \E path \in PathsOver(RequestSegments) :
        FindRoute(path) /\ UNCHANGED <<now, OtherThanRouter>>

\* routes registered and looked up in any order, the lookups made within the
\* ttl of the first cached result
NextRouter ==
    \/ RouterAddRoute
    \/ RouterFindRoute

SpecRouter == Init /\ [][NextRouter]_vars

\* LRUCache.start() of either cache
SweepStart ==
    \E c \in CacheKinds :
        /\ CacheStart(c)
        /\ background' = [background EXCEPT !.sweeper = @ \/ c = "route"]
        /\ UNCHANGED <<now, bucketVars, cacheVars, queueVars, breakerVars, appVars,
                       routerVars, respVars, monVars, startup_complete, life>>

\* the sweeper of cache c wakes up
SweepCleanupLoop(c) ==
    /\ CleanupLoop(c)
    /\ UNCHANGED <<now, bucketVars, cacheVars, queueVars, breakerVars, appVars,
                   routerVars, respVars, monVars, startup_complete, background, life>>

\* LRUCache.set of one key with either expire argument
SweepSet ==
    \E expire \in Expires :
        Set("k1", "v1", expire)
            /\ UNCHANGED <<bucketVars, queueVars, breakerVars, appVars, routerVars,
                           lifeVars, respVars, monVars>>

\* add_route and find_route of the literal paths
SweepAddRoute ==
    \E path \in PathsOver(LiteralSegments), handler \in Handlers :
        AddRoute(path, handler) /\ UNCHANGED <<now, OtherThanRouter>>

SweepFindRoute ==
    \E path \in PathsOver(LiteralSegments) :
        FindRoute(path) /\ UNCHANGED <<now, OtherThanRouter>>

\* the two caches with their sweepers while time passes
NextSweep ==
    \/ SweepStart
    \/ \E c \in CacheKinds : SweepCleanupLoop(c)
    \/ SweepSet
    \/ SweepAddRoute
    \/ SweepFindRoute
    \/ CacheTick

\* the event loop resumes a sweeper whose sleep is over, and time passes
SpecSweep ==
    /\ InitHot
    /\ [][NextSweep]_vars
    /\ \A c \in CacheKinds : WF_vars(SweepCleanupLoop(c))
    /\ WF_vars(CacheTick)

OtherThanResponse ==
    <<now, bucketVars, cacheVars, queueVars, breakerVars, appVars, routerVars, lifeVars,
      monVars>>

RespSendJsonResponse ==
    \E status_code \in StatusCodes, n \in JsonLengths :
        SendJsonResponse(status_code, n) /\ UNCHANGED OtherThanResponse

RespSendFileResponse ==
    \E n \in BodyLengths : SendFileResponse(n) /\ UNCHANGED OtherThanResponse

RespSendStart ==
    \E outcome \in SendOutcomes : SendStart(outcome) /\ UNCHANGED OtherThanResponse

RespSendBody ==
    \E outcome \in SendOutcomes : SendBody(outcome) /\ UNCHANGED OtherThanResponse

NextResponse ==
    \/ RespSendJsonResponse
    \/ RespSendFileResponse
    \/ RespSendStart
    \/ RespSendBody

SpecResponse == Init /\ [][NextResponse]_vars

OtherThanMonitor ==
    <<now, bucketVars, cacheVars, queueVars, breakerVars, appVars, routerVars, lifeVars,
      respVars>>

\* the components as constructed with their defaults; the monitor and the
\* tracer as constructed, or one request short of max_stored_requests
InitMonitor ==
    /\ now = 1
    /\ BucketInit
    /\ CacheInit
    /\ max_memory = 0
    /\ QueueInit
    /\ BreakerInit
    /\ AppInit
    /\ RouterInit
    /\ LifeInit
    /\ ~background.task_queue
    /\ ResponseInit
    /\ \E n \in {0, max_stored_requests - 1} : MonitorAfter(n)

MonArrive == MonitorArrive /\ UNCHANGED OtherThanMonitor

MonRecordRequest ==
    \E timing \in {"before", "after"} : RecordRequest(timing) /\ UNCHANGED OtherThanMonitor

MonTraceRequest ==
    \E timing \in {"before", "after"} : TraceRequest(timing) /\ UNCHANGED OtherThanMonitor

NextMonitor ==
    \/ MonArrive
    \/ MonRecordRequest
    \/ MonTraceRequest

SpecMonitor == InitMonitor /\ [][NextMonitor]_vars

OtherThanLife ==
    <<now, bucketVars, cacheVars, breakerVars, routerVars, respVars, monVars, heap, pc,
      current_task, lastCancel>>

LifeLifespanStartup == LifespanStartup /\ UNCHANGED OtherThanLife

LifeLifespanShutdown == LifespanShutdown /\ UNCHANGED OtherThanLife

LifeStartupBegin == \E r \in Requests : StartupBegin(r) /\ UNCHANGED OtherThanLife

LifeStartupEnd == \E r \in Requests : StartupEnd(r) /\ UNCHANGED OtherThanLife

LifeCallStarted == \E r \in Requests : CallStarted(r) /\ UNCHANGED OtherThanLife

LifeShutdown == Shutdown /\ UNCHANGED OtherThanLife

\* the lifespan events, the requests and shutdown in any interleaving
NextLife ==
    \/ LifeLifespanStartup
    \/ LifeLifespanShutdown
    \/ LifeStartupBegin
    \/ LifeStartupEnd
    \/ LifeCallStarted
    \/ LifeShutdown
    \/ AppBeforeBreaker
    \/ AppBeforeLimiter
    \/ AppBeforeOther
    \/ AppHandleRequest
    \/ AppAfterBreaker
    \/ AppAfterOther

SpecLife == InitLife /\ [][NextLife]_vars

\* the framework serving requests through the default middlewares only
NextGate ==
    \/ AppArrive
    \/ AppBeforeBreaker
    \/ AppBeforeLimiter
    \/ AppBeforeOther
    \/ AppHandleRequest
    \/ AppAfterBreaker
    \/ AppAfterOther
    \/ AppTick

SpecGate == Init /\ [][NextGate]_vars

\* the framework serving requests, with registered middlewares, at one reading
\* of the clock: the bucket is not refilled and an OPEN breaker stays OPEN
NextChain ==
    \/ AppAddMiddleware
    \/ AppArrive
    \/ AppBeforeBreaker
    \/ AppBeforeLimiter
    \/ AppBeforeOther
    \/ AppHandleRequest
    \/ AppAfterBreaker
    \/ AppAfterOther

SpecChain == Init /\ [][NextChain]_vars

NextBucket ==
    \/ Acquire
    \/ BucketTick

SpecBucket == Init /\ [][NextBucket]_vars

(***************************************************************************)
(* Claims about the task queue                                             *)
(***************************************************************************)
\* the entry of task id in the queue
EntryOf(id) == heap[CHOOSE i \in 1..Len(heap) : heap[i].id = id]

\* a consumer starts task id, which had never run, in this step
StartsPending(id) == tasks[id].status = "PENDING" /\ tasks'[id].status = "RUNNING"

\* the entries of the queue whose tasks have never been started and have the
\* task type ty
WaitingEntries(ty) ==
    {heap[i] : i \in {j \in 1..Len(heap) :
                        tasks[heap[j].id].status = "PENDING" /\ heap[j].type = ty}}

\* C2: whenever a consumer starts a task, no task that is enqueued, not yet
\* started and of the same type has a higher priority value.
C2_HighestPriorityFirst ==
    [][ \A id \in TaskIds :
            StartsPending(id) =>
                \A e \in WaitingEntries(EntryOf(id).type) :
                    tasks[e.id].priority <= tasks[id].priority
      ]_vars

\* C3: whenever a consumer starts a task, no task of the same priority and
\* type that was enqueued earlier is still waiting to be started.
C3_FifoWithinPriority ==
    [][ \A id \in TaskIds :
            StartsPending(id) =>
                \A e \in WaitingEntries(EntryOf(id).type) :
                    tasks[e.id].priority = tasks[id].priority => e.id >= id
      ]_vars

(***************************************************************************)
(* Claims about the LRU cache                                              *)
(***************************************************************************)
\* C7: after any sequence of get and set calls, each of which runs to its
\* return under the cache's lock, the cache stores at most capacity entries.
C7_CountWithinCapacity == Len(cache) <= CacheCapacity

\* C7 witness: a set has just inserted into a full cache, evicted the least
\* recently used entry and left the cache full.
C7_Witness ==
    /\ cacheOp.op = "set"
    /\ cacheOp.evicted
    /\ Len(cache) = CacheCapacity

\* C8: a get of a key whose entry has expire_at earlier than the current time
\* returns a miss, counts one miss and removes the entry; a get of a present
\* key whose entry has not expired returns the stored value, counts one hit
\* and makes the key the most recently used.
C8_GetHonoursExpiry ==
    [][ (hits' + misses' # hits + misses /\ cacheOp'.key \in CacheKeys(cache)) =>
            LET k == cacheOp'.key
                e == CacheItem(cache, k)
            IN  IF e.expire_at < now
                THEN /\ cacheOp'.result = None
                     /\ misses' = misses + 1
                     /\ hits' = hits
                     /\ k \notin CacheKeys(cache')
                ELSE /\ cacheOp'.result = e.value
                     /\ hits' = hits + 1
                     /\ misses' = misses
                     /\ cache' # <<>>
                     /\ cache'[Len(cache')].key = k
      ]_vars

\* C8 witness: a get found its key expired and removed it while another,
\* unexpired entry stayed in the cache.
C8_Witness ==
    /\ cacheOp.op = "get"
    /\ cacheOp.found = "expired"
    /\ cacheOp.result = None
    /\ cacheOp.key \notin CacheKeys(cache)
    /\ cache # <<>>
    /\ misses >= 1

(***************************************************************************)
(* Claims about the token bucket                                           *)
(***************************************************************************)
RECURSIVE GrantedIn(_, _)
\* the tokens granted by successful acquire calls at the times a..b
GrantedIn(a, b) == IF a > b THEN 0 ELSE granted[a] + GrantedIn(a + 1, b)

\* C9: in every reachable state 0 <= tokens <= capacity, and after an acquire
\* that returned false the bucket holds no fewer tokens than before the call
\* (a refused acquire subtracts nothing).
C9_TokensWithinCapacity ==
    /\ 0 <= tokens
    /\ tokens <= BucketCapacity
    /\ (lastAcquire.calls = 1 /\ ~lastAcquire.ok) => tokens >= lastAcquire.before

\* C9 witness: an acquire was refused on a bucket that had been drained and
\* then refilled by elapsed time, and left the refilled tokens in place.
C9_Witness ==
    /\ lastAcquire.calls = 1
    /\ ~lastAcquire.ok
    /\ tokens > lastAcquire.before
    /\ tokens < lastAcquire.n

\* C10: over every window of times a..b, the tokens granted by successful
\* acquire calls are at most capacity + fill_rate * (b - a).
C10_WindowBound ==
    \A a \in Times : \A b \in Times :
        (a <= b /\ b <= now) =>
            GrantedIn(a, b) <= BucketCapacity + FillRate * (b - a)

\* C10 witness: a window of positive length in which the bound is met with
\* equality: the full bucket was spent and every refilled token as well.
C10_Witness ==
    \E a \in Times : \E b \in Times :
        /\ a < b /\ b <= now
        /\ GrantedIn(a, b) = BucketCapacity + FillRate * (b - a)

(***************************************************************************)
(* The middleware chain and the circuit breaker                            *)
(***************************************************************************)
\* the 'before' hooks of a middleware list, first to last
Befores(stack) == [i \in 1..Len(stack) |-> <<stack[i], "before">>]

\* the 'after' hooks of a middleware list, last to first
Afters(stack) == [i \in 1..Len(stack) |-> <<stack[Len(stack) + 1 - i], "after">>]

\* request r went through the whole chain: no hook raised, a route was found
\* and its handler returned
ServedCleanly(r) ==
    /\ req[r].pc = "done"
    /\ ~req[r].raised
    /\ req[r].outcome \in {"returns_200", "returns_500"}

\* C1: a request on which no hook and no handler raises runs the 'before'
\* hooks of the middleware list [m1..mn] the framework has when the request
\* arrives in the order m1..mn, then the handler, then the 'after' hooks in the
\* order mn..m1
C1_HookOrder ==
    \A r \in Requests :
        ServedCleanly(r) =>
            req[r].log = Befores(req[r].stack) \o <<<<"handler">>>> \o Afters(req[r].stack)

\* the step is the breaker's 'before' hook of request r
IsBeforeBreaker(r) ==
    /\ req[r].pc = "before"
    /\ req[r].chain[req[r].idx] = BREAKER
    /\ req'[r] # req[r]

\* the step is the breaker's 'after' hook of request r
IsAfterBreaker(r) ==
    /\ req[r].pc = "after"
    /\ req[r].chain[req[r].idx] = BREAKER
    /\ req'[r] # req[r]

\* request r was turned away by the breaker and its handler never ran
RejectedByBreaker(q) ==
    /\ q.rejected = "breaker"
    /\ q.pc = "done"
    /\ q.outcome = "none"
    /\ \A i \in 1..Len(q.log) : q.log[i] # <<"handler">>

\* C4: when the failure_threshold-th consecutive request completes with
\* status_code >= 500 the breaker is OPEN, and a request that reaches the
\* breaker's 'before' hook in OPEN within reset_timeout of the last failure is
\* rejected there and never reaches the route handler
C4_OpensAndRejects ==
    [][\A r \in Requests :
          /\ (IsAfterBreaker(r) /\ StatusOr200(req[r].status_code) >= 500
                 /\ breakerHist'.consecutive >= failure_threshold)
                => state' = "OPEN"
          /\ (IsBeforeBreaker(r) /\ state = "OPEN"
                 /\ now - last_failure_time <= reset_timeout)
                => RejectedByBreaker(req'[r]) /\ state' = "OPEN"]_vars

\* C4 witness: the breaker opened after failure_threshold consecutive failures
\* and a request that came within reset_timeout was rejected
C4_Witness ==
    /\ state = "OPEN"
    /\ breakerHist.consecutive >= failure_threshold
    /\ now - last_failure_time <= reset_timeout
    /\ \E r \in Requests : RejectedByBreaker(req[r])

\* request p is a probe in flight: admitted when the breaker was OPEN with the
\* timeout elapsed, and not completed yet
ProbeInFlight(p) == req[p].probe /\ req[p].pc # "done"

\* C5: while an admitted probe has not completed and the breaker is
\* HALF-OPEN, every other request that reaches the breaker's 'before' hook is
\* rejected and does not reach the handler
C5_OneProbe ==
    [][\A r \in Requests :
          (/\ IsBeforeBreaker(r)
           /\ state = "HALF-OPEN"
           /\ \E p \in Requests \ {r} : ProbeInFlight(p))
              => RejectedByBreaker(req'[r])]_vars

\* C6: a request answered with HTTP status 500 because its handler returned a
\* response with code 500 is counted by the breaker as a failure, and the
\* failure_threshold-th such request in a row leaves the breaker OPEN
C6_ReturnedFailureCounted ==
    [][\A r \in Requests :
          (IsAfterBreaker(r) /\ req[r].outcome = "returns_500")
              => /\ failures' = failures + 1
                 /\ (failures' >= failure_threshold => state' = "OPEN")]_vars

(***************************************************************************)
(* The router                                                              *)
(***************************************************************************)
\* the segments of a path that count: the empty pieces are ignored
Canon(path) == SelectSeq(Split(path), LAMBDA seg : seg # "")

RECURSIVE Matches(_, _)
\* pattern pat matches the segments segs: a literal matches itself, {name}
\* matches any one segment, a final * matches the one or more segments left
Matches(pat, segs) ==
    IF pat = <<>> THEN segs = <<>>
    ELSE IF segs = <<>> THEN FALSE
    ELSE IF Head(pat) = "*" /\ Len(pat) = 1 THEN TRUE
    ELSE IF IsParam(Head(pat)) THEN Matches(Tail(pat), Tail(segs))
    ELSE Head(pat) = Head(segs) /\ Matches(Tail(pat), Tail(segs))

\* literal > parameter > wildcard
Precedence(seg) == IF seg = "*" THEN 0 ELSE IF IsParam(seg) THEN 1 ELSE 2

\* pattern p has precedence over pattern q, compared segment by segment
Higher(p, q) ==
    \E i \in 1..Min(Len(p), Len(q)) :
        /\ Precedence(p[i]) > Precedence(q[i])
        /\ \A j \in 1..(i - 1) : Precedence(p[j]) = Precedence(q[j])

\* the registered patterns that match path
Matching(path) == {p \in DOMAIN routes : Matches(Canon(p), Canon(path))}

\* the matching patterns no other matching pattern has precedence over
Best(path) ==
    {p \in Matching(path) : \A q \in Matching(path) : ~Higher(Canon(q), Canon(p))}

\* the step is a find_route call
IsFind == finds' # finds

\* the find_route call of the step
ThisFind == finds'[Len(finds')]

\* C11: find_route(p) returns the handler of the highest-precedence registered
\* pattern that matches p, and reports a miss only when no registered pattern
\* matches p
C11_HighestPrecedenceMatch ==
    [][IsFind =>
          IF Matching(ThisFind.path) = {}
          THEN ThisFind.result.handler = None
          ELSE ThisFind.result.handler \in {routes[p] : p \in Best(ThisFind.path)}]_vars

\* C12: with a literal route and a parameterized route registered that differ
\* only in their last segment, a lookup whose last segment is the literal
\* returns the literal route's handler and no parameter, a lookup with
\* another last segment x returns the parameterized route's handler and
\* name = x
C12_LiteralBeatsParameter ==
    [][\A prefix \in {<<>>} \cup PathsOver(LiteralSegments), lit \in LiteralSegments,
          param \in ParamSegments :
          (/\ IsFind
           /\ Len(prefix) < MaxSegments
           /\ Append(prefix, lit) \in DOMAIN routes
           /\ Append(prefix, param) \in DOMAIN routes
           /\ Len(ThisFind.path) = Len(prefix) + 1
           /\ SubSeq(ThisFind.path, 1, Len(prefix)) = prefix)
              => LET x == ThisFind.path[Len(prefix) + 1]
                 IN  IF x = lit
                     THEN ThisFind.result =
                              [handler |-> routes[Append(prefix, lit)], params |-> <<>>]
                     ELSE x # "" =>
                          ThisFind.result =
                              [handler |-> routes[Append(prefix, param)],
                               params |-> Bind(<<>>, ParamName(param), x)]]_vars

\* C13: when the literal pattern p (the root path and a pattern with a
\* trailing slash included) is the one route registered and no result is
\* cached for p, find_route(p) returns the handler registered for p
C13_InsertThenLookup ==
    [][(/\ IsFind
        /\ DOMAIN routes = {ThisFind.path}
        /\ ThisFind.path \in PathsOver(LiteralSegments \cup {""})
        /\ ThisFind.path \notin CacheKeys(route_cache))
           => ThisFind.result.handler = routes[ThisFind.path]]_vars

(***************************************************************************)
(* Retries and cancellation                                                *)
(***************************************************************************)
\* the callback of task id, if any, is awaitable and does not raise
GoodCallback(id) == tasks[id].callback \in {"none", "returns"}

\* task id is in the queue
Enqueued(id) == \E i \in 1..Len(heap) : heap[i].id = id

C15_RetriesExhausted ==
    [][\A id \in 1..Len(tasks') :
          tasks'[id].result = None =>
              /\ tasks'[id].runs <= tasks'[id].max_retries + 1
              /\ tasks'[id].called = 0
              /\ tasks'[id].status = "FAILED" =>
                    /\ tasks'[id].runs = tasks'[id].max_retries + 1
                    /\ tasks'[id].fails = tasks'[id].max_retries + 1
                    /\ tasks'[id].error # None
                    /\ \A i \in 1..Len(heap') : heap'[i].id # id
              /\ (id \in TaskIds /\ tasks'[id].fails = tasks[id].fails + 1) =>
                    IF tasks[id].fails < tasks[id].max_retries
                    THEN /\ tasks'[id].retry_count = tasks[id].retry_count + 1
                         /\ tasks'[id].status = "RETRYING"
                    ELSE tasks'[id].status = "FAILED"
              /\ \A w \in Consumers :
                    (id \in TaskIds /\ pc[w] = "sleep" /\ pc'[w] # "sleep"
                        /\ current_task[w] = id)
                       => \E i \in 1..Len(heap') : heap'[i].id = id]_vars

\* C15 witness: a task with max_retries >= 1 that has FAILED
C15_Witness ==
    \E id \in TaskIds :
        /\ tasks[id].status = "FAILED"
        /\ tasks[id].max_retries >= 1
        /\ tasks[id].runs = tasks[id].max_retries + 1
        /\ tasks[id].result = None

\* C16: cancel_task(id) returns true and sets CANCELLED exactly when the task
\* is PENDING or RETRYING; for an unknown id and for a task in any other
\* status it returns false and changes no task
C16_CancelOnlyWaiting ==
    [][lastCancel' # lastCancel =>
          LET id == lastCancel'.id
              waiting == id \in TaskIds /\ tasks[id].status \in {"PENDING", "RETRYING"}
          IN  /\ lastCancel'.returned <=> waiting
              /\ waiting => tasks'[id].status = "CANCELLED"
              /\ ~waiting => tasks' = tasks]_vars

\* C16 witness: a RETRYING task has been cancelled, cancel_task returned true
C16_Witness ==
    /\ lastCancel.returned
    /\ lastCancel.before = "RETRYING"
    /\ tasks[lastCancel.id].status = "CANCELLED"

(***************************************************************************)
(* The responses to rejected requests                                      *)
(***************************************************************************)
\* request q is over and was turned away by middleware kind
TurnedAwayBy(q, kind) == q.pc = "done" /\ q.rejected = kind

\* C17: a request the token bucket denies is answered with HTTP status 429
\* and its route handler is not invoked
C17_RateLimited429 ==
    \A r \in Requests :
        TurnedAwayBy(req[r], "limiter") =>
            req[r].sent = <<429>> /\ req[r].outcome = "none"

\* C18: a request the circuit breaker rejects in OPEN is answered with HTTP
\* status 503 and its route handler is not invoked
C18_CircuitOpen503 ==
    \A r \in Requests :
        TurnedAwayBy(req[r], "breaker") =>
            req[r].sent = <<503>> /\ req[r].outcome = "none"

(***************************************************************************)
(* Startup and shutdown                                                    *)
(***************************************************************************)
\* request q is inside the middleware chain or has been through it
InChain(q) == q.pc \notin {"idle", "startup"}

\* C19: for any interleaving of a lifespan.startup event and concurrent first
\* requests, each startup hook and the startup routine run at most once, and
\* no request enters the middleware chain before startup has finished
C19_StartupOnce ==
    /\ life.startup_hooks <= 1
    /\ life.startups <= 1
    /\ \A r \in Requests : InChain(req[r]) => life.finished >= 1

\* C20: once shutdown has returned, none of the background loops the framework
\* started (cache sweeper, task-queue consumers, metrics collection) is still
\* running or blocked waiting
C20_ShutdownStopsLoops ==
    life.shutdown = "returned" =>
        /\ ~background.sweeper
        /\ background.collectors = 0
        /\ background.consumers = 0

(***************************************************************************)
(* The circuit breaker in HALF-OPEN and its failure counter                *)
(***************************************************************************)
\* C21: a request admitted in HALF-OPEN that completes with status_code >= 500
\* while the breaker is HALF-OPEN moves it to OPEN and updates
\* last_failure_time; one that completes with a non-5xx status moves it to
\* CLOSED with the failure counter reset to 0
C21_HalfOpenOutcome ==
    [][\A r \in Requests :
          (IsAfterBreaker(r) /\ req[r].probe /\ state = "HALF-OPEN")
              => IF StatusOr200(req[r].status_code) >= 500
                 THEN state' = "OPEN" /\ last_failure_time' = now
                 ELSE state' = "CLOSED" /\ failures' = 0]_vars

\* request r completes in this step with a non-5xx status in the scope
CompletesOk(r) == IsAfterBreaker(r) /\ StatusOr200(req[r].status_code) < 500

\* C22: the failure counter is reset to 0 only by a successful completion
\* observed while the breaker is CLOSED or HALF-OPEN; a request that completes
\* with a non-5xx status while the breaker is OPEN leaves the counter unchanged
C22_ResetOnlyClosedOrHalfOpen ==
    [][/\ (failures # 0 /\ failures' = 0)
             => \E r \in Requests :
                    CompletesOk(r) /\ state \in {"CLOSED", "HALF-OPEN"}
       /\ \A r \in Requests :
             (CompletesOk(r) /\ state = "OPEN") => failures' = failures]_vars

\* C30: with the default middleware stack a request rejected by the rate
\* limiter is not treated by the breaker as a successful completion: it does
\* not move the breaker from HALF-OPEN to CLOSED and does not reset the
\* failure counter
C30_RateLimitedIsNoSuccess ==
    [][\A r \in Requests :
          (IsAfterBreaker(r) /\ req[r].rejected = "limiter")
              => /\ ~(state = "HALF-OPEN" /\ state' = "CLOSED")
                 /\ (failures' = 0 => failures = 0)]_vars

(***************************************************************************)
(* The compiled chain and the hooks that raise                             *)
(***************************************************************************)
\* hook h of middleware m ran on request q
Ran(q, m, h) == \E i \in 1..Len(q.log) : q.log[i] = <<m, h>>

\* C23: registration invalidates the compiled chain: a request that arrives
\* after add_middleware(m) returned, and that no hook turns away, runs the
\* 'before' and the 'after' hook of m, also when requests were served with a
\* cached chain before the registration
C23_RegistrationInvalidates ==
    \A r \in Requests :
        ServedCleanly(r) =>
            \A i \in 1..Len(req[r].stack) :
                /\ Ran(req[r], req[r].stack[i], "before")
                /\ Ran(req[r], req[r].stack[i], "after")

\* the first k middlewares of the chain request q runs through
Entered(q, k) == SubSeq(q.chain, 1, k)

\* C24: if the 'before' hook of middleware m_k raises, no 'before' hook of
\* m_k+1..m_n runs, the route handler is not invoked, and the 'after' hooks of
\* the middlewares already entered run in the order m_k-1..m_1
C24_BeforeRaises ==
    \A r \in Requests :
        (req[r].pc = "done" /\ req[r].rejected # "none") =>
            /\ req[r].outcome = "none"
            /\ \E k \in 1..Len(req[r].chain) :
                  /\ req[r].chain[k][1] = req[r].rejected
                  /\ req[r].log = Befores(Entered(req[r], k))
                                      \o Afters(Entered(req[r], k - 1))

\* C24 witness: the 'before' hook of a registered middleware, the innermost
\* one, raised and the request is over with the breaker's 'after' hook run
C24_Witness ==
    \E r \in Requests :
        /\ req[r].pc = "done"
        /\ req[r].rejected = "user"
        /\ Ran(req[r], BREAKER, "after")

\* C25: for every request exactly one http.response.start message is sent,
\* whatever 'before' hooks, 'after' hooks and handlers raise
C25_ExactlyOneResponse ==
    \A r \in Requests : req[r].pc = "done" => Len(req[r].sent) = 1

\* C29: the status_code in the scope, which the breaker reads in its 'after'
\* phase, equals the HTTP status of the response sent; a request whose handler
\* raises an API error with code 400 is answered with 400 and is not counted
\* by the breaker as a failure
C29_ScopeStatusIsSentStatus ==
    [][\A r \in Requests :
          (IsAfterBreaker(r) /\ req[r].outcome # "none") =>
              /\ req[r].sent = <<req[r].status_code>>
              /\ req[r].outcome = "raises_api_400" =>
                    /\ req[r].sent = <<400>>
                    /\ breakerHist'.event # "failure"]_vars

(***************************************************************************)
(* Cancelled and completed tasks                                           *)
(***************************************************************************)
\* C26: a task for which cancel_task returned true is never run afterwards: no
\* worker invokes its function and its status stays CANCELLED, whether it was
\* cancelled while PENDING in the queue or while RETRYING
C26_CancelledNeverRuns ==
    [][\A id \in TaskIds :
          tasks[id].status = "CANCELLED" =>
              /\ tasks'[id].status = "CANCELLED"
              /\ tasks'[id].runs = tasks[id].runs]_vars

\* no consumer holds task id: its processing is over
Released(id) == \A w \in Consumers : current_task[w] # id

\* C27: once a task's function has returned successfully the function is not
\* invoked again for that task, and the task ends COMPLETED, even if its
\* callback raises
C27_SuccessIsFinal ==
    [][\A id \in TaskIds :
          tasks[id].result # None =>
              /\ tasks'[id].runs = tasks[id].runs
              /\ Released(id)' => tasks'[id].status = "COMPLETED"]_vars

\* task id is in the queue under a type that a running consumer accepts
Acceptable(id) ==
    \E i \in 1..Len(heap) :
        /\ heap[i].id = id
        /\ \E w \in Consumers : heap[i].type \in ConsumerTaskTypes(w)

\* task id has been started by a consumer
Started(id) == id \in TaskIds /\ tasks[id].runs > 0

\* C28: under fair scheduling of the consumers every enqueued task whose type
\* some running consumer accepts is eventually started, whatever tasks of a
\* type no consumer accepts are in the queue
C28_AcceptedTaskStarts ==
    \A id \in 1..MaxFairTasks : Acceptable(id) ~> Started(id)

(***************************************************************************)
(* The cache: the memory ceiling, the sweeper, the hot routes              *)
(***************************************************************************)
\* cache c has been started
CacheStarted(c) == sweeper[c].pc # "none"

\* the store of cache c
Store(c) == IF c = "lru" THEN cache ELSE route_cache

\* the store of cache c holds an entry whose expire_at has passed
HoldsExpired(c) == \E i \in 1..Len(Store(c)) : Expired(Store(c)[i], now)

\* C31: once a cache has been started, an entry whose expire_at has passed is
\* eventually removed by the sweeper even if no get or set is called, and the
\* sweeper keeps running after each sweep; for LRUCache and for RouteCache
C31_SweeperRemovesExpired ==
    \A c \in CacheKinds :
        /\ (CacheStarted(c) /\ HoldsExpired(c)) ~> ~HoldsExpired(c)
        /\ [](sweeper[c].sweeps > 0 => sweeper[c].pc = "sleep")

\* C33: a route-cache entry whose key is in the hot-route set is not removed
\* because of its TTL: after its expire_at has passed it is still stored and
\* still returned by get (no entry leaves through capacity here: the capacity
\* of 2000 is never reached)
C33_HotRouteOutlivesTtl ==
    [][\A path \in CacheKeys(route_cache) \cap HotRoutes :
          /\ path \in CacheKeys(route_cache')
          /\ (IsFind /\ ThisFind.path = path) =>
                 /\ ThisFind.cached
                 /\ ThisFind.result = CacheItem(route_cache, path).value]_vars

\* C32: with a memory ceiling configured, after any set call has returned the
\* estimated size of all stored values is at most max_memory
C32_WithinMemoryCeiling ==
    (max_memory # 0 /\ cacheOp.op = "set") => MemoryUsage(cache) <= max_memory

(***************************************************************************)
(* The router: wildcards, parameter names, the cache                       *)
(***************************************************************************)
\* the step is a find_route call answered by the trie, not by the cache
IsTrieFind == IsFind /\ ~ThisFind.cached

\* pattern p ends with the wildcard
EndsWithWildcard(p) == Canon(p) # <<>> /\ Canon(p)[Len(Canon(p))] = "*"

\* C34: for a registered pattern whose final segment is the wildcard *, the
\* lookup of a path that matches the pattern's prefix and has one or more
\* segments left matches that pattern, and the segments left are recorded as
\* the captured value
C34_WildcardCapturesRemainder ==
    [][\A p \in DOMAIN routes :
          (/\ IsTrieFind
           /\ EndsWithWildcard(p)
           /\ Matching(ThisFind.path) = {p})
              => LET left == SubSeq(Canon(ThisFind.path), Len(Canon(p)),
                                    Len(Canon(ThisFind.path)))
                 IN  /\ ThisFind.result.handler = routes[p]
                     /\ Len(left) = 1 =>
                           \E n \in DOMAIN ThisFind.result.params :
                               ThisFind.result.params[n] = left[1]]_vars

\* the positions of pattern p that declare a parameter
ParamPositions(p) == {i \in 1..Len(p) : IsParam(p[i])}

\* the params map pattern p declares for the segments segs: each declared name
\* bound to the segment at its position
DeclaredParams(p, segs) ==
    [n \in {ParamName(p[i]) : i \in ParamPositions(p)} |->
        segs[CHOOSE i \in ParamPositions(p) :
                 /\ ParamName(p[i]) = n
                 /\ \A j \in ParamPositions(p) : ParamName(p[j]) = n => j <= i]]

\* C35: a lookup that matches a parameterized route returns a params map that
\* binds exactly the parameter names declared in that route's own pattern to
\* the corresponding segments, also when another route declares a different
\* name at the same position
C35_OwnParameterNames ==
    [][\A p \in DOMAIN routes :
          (/\ IsTrieFind
           /\ ParamPositions(Canon(p)) # {}
           /\ ~EndsWithWildcard(p)
           /\ Matching(ThisFind.path) = {p}
           /\ ThisFind.result.handler = routes[p])
              => ThisFind.result.params =
                     DeclaredParams(Canon(p), Canon(ThisFind.path))]_vars

\* C36: the route cache is transparent: find_route(path) returns what the
\* uncached trie lookup returns against the current routing table, also when
\* add_route registered or replaced a route after a result was cached
C36_CacheTransparent ==
    [][IsFind => ThisFind.result = TrieLookup(ThisFind.path)]_vars

\* C37: handlers are bound per (pattern, method): after the same pattern was
\* registered a second time with a disjoint method set and another handler, a
\* request with a method of the first registration still resolves to the first
\* handler and a request with a method of the second resolves to the second
C37_HandlerPerMethod ==
    [][\A path \in DOMAIN routes :
          (/\ path \in DOMAIN routes'
           /\ routes'[path] # routes[path]
           /\ MethodsOf(routes[path]) \cap MethodsOf(routes'[path]) = {}
           /\ \A m \in MethodsOf(routes[path]) :
                 Resolve(TrieLookup(path), m) = routes[path])
              => LET after == Walk(root', <<>>, Split(path), <<>>)
                 IN  /\ \A m \in MethodsOf(routes[path]) :
                            Resolve(after, m) = routes[path]
                     /\ \A m \in MethodsOf(routes'[path]) :
                            Resolve(after, m) = routes'[path]]_vars


(***************************************************************************)
(* The emission of a response and the buffers of the monitor and tracer    *)
(***************************************************************************)
\* the call under way has returned without a send that raised: wire is what
\* one _send_response emitted
Emitted == emit.pc = "returned" /\ emit.depth = 0

\* C38: every response emitted by _send_response is one
\* http.response.start followed by one or more http.response.body messages
\* of at most 8192 bytes each, whose concatenation is the body; the last
\* message has more_body = false and every earlier one more_body = true;
\* for every body length, 0 and the multiples of 8192 included
C38_ChunkedResponse ==
    Emitted =>
        /\ Len(wire) >= 2
        /\ wire[1].type = "http.response.start"
        /\ \A k \in 2..Len(wire) :
              /\ wire[k].type = "http.response.body"
              /\ wire[k].hi - wire[k].lo <= 8192
              /\ wire[k].lo = IF k = 2 THEN 0 ELSE wire[k - 1].hi
              /\ wire[k].more_body = (k < Len(wire))
        /\ wire[Len(wire)].hi = emit.len

\* C39: if send raises while a response or an error response is emitted,
\* the failure is suppressed and the emission ends: the call returns after
\* a bounded number of send attempts, it does not go on calling itself, and
\* no exception leaves it
C39_SendFailureSuppressed == emit.pc # "raised"

\* s holds at most max_stored_requests serials, the latest ones
Ring(s) ==
    /\ Len(s) <= 1000
    /\ \A k \in 1..Len(s) : s[k] = s[Len(s)] - Len(s) + k

\* C40: after any number of requests the stored request records of the
\* monitor and the recorded spans of the tracer are at most 1000 each, the
\* oldest dropped first
C40_BuffersBounded == Ring(requests) /\ Ring(spans)

====
